---------------------------- MODULE Spec2Model ----------------------------
(***************************************************************************)
(* A model of df::Series (the nullable numeric column of cppdf) and of the *)
(* operations on it: the explicit, monadic and dyadic constructors, the    *)
(* in-place transform family, the operator family, the null management     *)
(* (set_null / is_null / valid_count / null_count) and the aggregates, and  *)
(* of df::DataFrame, the store of named, type-erased Series columns.       *)
(*                                                                         *)
(* A Series is the record [data, valid, exec]: data_ is the element buffer,*)
(* valid_ the std::vector<bool> validity mask, exec_ the execution policy. *)
(* C++ positions are 0-based; position idx is index idx + 1 of the TLA+    *)
(* sequences.  Elements are ints (Series<int>), so / is C++ integer        *)
(* division, which truncates toward zero.                                  *)
(***************************************************************************)
EXTENDS Integers, Sequences, FiniteSets

VARIABLES
    a,      \* the receiver Series: every mutator and every call acts on it
    b,      \* the operand Series handed to dyadic calls (const Series&)
    frame,  \* the DataFrame: cols_, col_order_ and which entry cols_.begin() is
    run,    \* the bulk loop in flight: each position's progress and temporaries
    res     \* the outcome of the last call made on a (and b), or on frame

vars == <<a, b, frame, run, res>>

---------------------------------------------------------------------------
(* Bounds of the model *)

\* longest element buffer
MaxLen == 2
\* largest index handed to set_null (MaxIdx >= MaxLen makes it out of bounds)
MaxIdx == 2
\* elements of the sequences a Series is constructed from, and appended
MaxInit == 2
\* scalars handed to the scalar transforms and operators
MaxScalar == 2
\* an in-place transform is followed only while the receiver stays in 0..MaxVal
MaxVal == 2

Vals == 1..MaxInit
Scalars == 1..MaxScalar
ValRange == 0..MaxVal
MaxMask == IF MaxIdx + 1 > MaxLen THEN MaxIdx + 1 ELSE MaxLen

Ops == {"add", "sub", "mul", "div"}

\* What a read past the end of a vector<bool> with storage can return: any bits.
JunkBits == [1..MaxMask -> BOOLEAN]
\* What a read past the end of a non-empty element buffer can return.
JunkVals == [1..MaxLen -> 0..1]

---------------------------------------------------------------------------
(* Helpers on sequences *)

RECURSIVE SumSeq(_)
SumSeq(s) == IF s = <<>> THEN 0 ELSE Head(s) + SumSeq(Tail(s))

Count(s, v) == Cardinality({i \in 1..Len(s) : s[i] = v})

Max2(x, y) == IF x >= y THEN x ELSE y

Abs(x) == IF x < 0 THEN 0 - x ELSE x

\* int / int in C++: the quotient truncated toward zero (y # 0)
CDiv(x, y) ==
    LET q == Abs(x) \div Abs(y)
    IN  IF (x < 0) # (y < 0) THEN 0 - q ELSE q

\* std::sqrt of a non-negative int converted back to int: the root rounded down
ISqrt(x) == CHOOSE r \in 0..x : r * r <= x /\ (r + 1) * (r + 1) > x

\* std::vector::resize(n) / resize(n, fill)
VecResize(s, n, fill) ==
    [i \in 1..n |-> IF i <= Len(s) THEN s[i] ELSE fill]

---------------------------------------------------------------------------
(* Construction *)

\* enum class ExecPolicy
ExecPolicy == {"SEQ", "PAR", "UNSEQ", "PAR_UNSEQ"}

\* values of type ExecPolicy that are none of its enumerators, such as
\* static_cast<ExecPolicy>(4): what a corrupted exec_ holds
OutOfRangePolicy == {"ExecPolicy(4)", "ExecPolicy(-1)"}

\* ExecPolicy exec_{ExecPolicy::PAR_UNSEQ}
DefaultPolicy == "PAR_UNSEQ"

\* the std::execution object each case of with_policy hands to f
ExecutionMode(policy) ==
    CASE policy = "SEQ" -> "std::execution::seq"
      [] policy = "PAR" -> "std::execution::par"
      [] policy = "PAR_UNSEQ" -> "std::execution::par_unseq"
      [] policy = "UNSEQ" -> "std::execution::unseq"

\* with_policy running f under the default mode for an unknown policy
with_policy_defaulting(policy) ==
    [status |-> "ok", calls |-> 1,
     mode |-> IF policy \in ExecPolicy THEN ExecutionMode(policy)
                                       ELSE ExecutionMode(DefaultPolicy)]

\* decltype(auto) with_policy(ExecPolicy policy, F&& f): the switch returns
\* f(mode) for the four enumerators; any other value falls out of the switch
\* into unreachable_policy(), which fails its assert (debug build) or calls
\* std::abort() (NDEBUG build): the process aborts either way.  calls is the
\* number of times f was invoked, mode the execution mode it was given.
with_policy(policy) ==
    IF policy \in ExecPolicy
    THEN [status |-> "ok", calls |-> 1, mode |-> ExecutionMode(policy)]
    ELSE [status |-> "abort", calls |-> 0, mode |-> "none"]

\* explicit Series(std::vector<DataType_> data): valid_ stays empty
Series(data) == [data |-> data, valid |-> <<>>, exec |-> DefaultPolicy]

size(s) == Len(s.data)

\* ExecPolicy exec_policy() const
exec_policy(s) == s.exec

\* void set_exec_policy(ExecPolicy policy)
set_exec_policy(s, policy) == [s EXCEPT !.exec = policy]

\* std::optional<T>
nullopt == [has |-> FALSE, v |-> 0]
Some(x) == [has |-> TRUE, v |-> x]

---------------------------------------------------------------------------
(* Null management *)

\* set_null() growing the mask with valid_.resize(n), which pads with false
set_null_pad_false(s, idx) ==
    IF size(s) = 0
    THEN s
    ELSE LET grown == IF idx >= Len(s.valid)
                      THEN VecResize(s.valid, Max2(idx + 1, size(s)), FALSE)
                      ELSE s.valid
         IN  [s EXCEPT !.valid = [grown EXCEPT ![idx + 1] = FALSE]]

\* void set_null(std::size_t idx)
set_null(s, idx) ==
    IF size(s) = 0
    THEN s
    ELSE LET grown == IF idx >= Len(s.valid)
                      THEN VecResize(s.valid, Max2(idx + 1, size(s)), TRUE)
                      ELSE s.valid
         IN  [s EXCEPT !.valid = [grown EXCEPT ![idx + 1] = FALSE]]

\* bool is_null(std::size_t idx) const
is_null(s, idx) ==
    IF idx >= Len(s.valid) THEN TRUE ELSE ~s.valid[idx + 1]

\* std::size_t null_count() const: count_if over valid_ of !v
null_count(s) ==
    IF Len(s.valid) = 0 THEN 0 ELSE Count(s.valid, FALSE)

\* std::size_t valid_count() const: count_if over valid_ of v
valid_count(s) ==
    IF size(s) = 0 THEN 0 ELSE Count(s.valid, TRUE)

\* void append(const DataType_& value)
append(s, value) == [s EXCEPT !.data = Append(@, value)]

\* void clear()
clear(s) == [s EXCEPT !.data = <<>>]

\* void resize(std::size_t n)
resize(s, n) == [s EXCEPT !.data = VecResize(@, n, 0)]

---------------------------------------------------------------------------
(* Aggregates.  j are the bits that a read of valid_ past its end returns. *)

\* valid_.begin()[i - 1] as transform_reduce reads it alongside data_[i - 1]
MaskRead(s, i, j) == IF i <= Len(s.valid) THEN s.valid[i] ELSE j[i]

\* What dot() can hand back after flowing off its end without a return
\* statement: whatever the return register holds, or the process dies.
DotReturns ==
    {[status |-> "ok", value |-> Some(v)] : v \in 0..(MaxLen * MaxLen * MaxInit)}
        \cup {[status |-> "crash", value |-> nullopt]}

\* J dot(const Series<T>& other) const: the size check, then a transform_reduce
\* whose result is dropped; ret is what the caller receives
dot(self, other, ret) ==
    IF size(self) # size(other)
    THEN [status |-> "invalid_argument", value |-> nullopt]
    ELSE ret

\* std::optional<T> sum() const
sum(s, j) ==
    IF valid_count(s) = 0
    THEN nullopt
    ELSE Some(SumSeq([i \in 1..size(s) |->
                        IF MaskRead(s, i, j) THEN s.data[i] ELSE 0]))

\* std::optional<T> mean() const
mean(s, j) ==
    LET vcount == valid_count(s)
        summation == sum(s, j)
    IN  IF vcount = 0 THEN nullopt
        ELSE IF ~summation.has THEN nullopt
        ELSE Some(CDiv(summation.v, vcount))

\* std::optional<T> variance() const
variance(s, j) ==
    LET vcount == valid_count(s)
        m == mean(s, j)
    IN  IF vcount = 0 THEN nullopt
        ELSE IF ~m.has THEN nullopt
        ELSE Some(CDiv(SumSeq([i \in 1..size(s) |->
                                 (s.data[i] - m.v) * (s.data[i] - m.v)]),
                       vcount))

\* std::optional<T> stddev() const
stddev(s, j) ==
    LET var == variance(s, j)
    IN  IF ~var.has THEN nullopt ELSE Some(ISqrt(var.v))

\* std::optional<std::reference_wrapper<T>> min() const.  Its body hands exec_,
\* an ExecPolicy enumerator, to std::min_element as the execution policy
\* (and binds the const element to a reference_wrapper<T>): no overload takes
\* it, so the member template cannot be instantiated and a program that
\* calls min() is rejected by the compiler, whatever the Series holds.
min(s) == [status |-> "ill_formed", value |-> nullopt]

\* std::optional<std::reference_wrapper<T>> max() const: as min(), with
\* std::max_element
max(s) == [status |-> "ill_formed", value |-> nullopt]

\* sum() reads valid_ once per element of data_: past the end of a shorter mask
ReadsPastMask(s) == valid_count(s) # 0 /\ Len(s.valid) < size(s)

---------------------------------------------------------------------------
(* Functors *)

\* the dyadic lambdas of add / sub / mul / div (Series) and of operator+ - * /
Functor(op, x, o) ==
    CASE op = "add" -> x + o
      [] op = "sub" -> x - o
      [] op = "mul" -> x * o
      [] op = "div" -> CDiv(x, o)

\* the monadic lambdas of add / sub / mul / div (scalar), val bound in the closure
ScalarFunctor(op, val, x) ==
    CASE op = "add" -> val + x
      [] op = "sub" -> x - val
      [] op = "mul" -> x * val
      [] op = "div" -> CDiv(x, val)

\* the scalar-left lambdas computing x op lhs instead of lhs op x
OperatorFunctorCommuted(op, form, val, x) == Functor(op, x, val)

\* the monadic lambdas of the operators: "sv" is series op scalar (x op rhs),
\* "vs" is scalar op series (lhs op x)
OperatorFunctor(op, form, val, x) ==
    IF form = "sv" THEN Functor(op, x, val) ELSE Functor(op, val, x)

\* a closure handed to a monadic transform: the lambda of a scalar method
\* (form "method") or of a scalar operator (form "sv" / "vs"), val bound in it
Closure(op, form, val) == [op |-> op, form |-> form, val |-> val]

\* functor(x)
Call(functor, x) ==
    IF functor.form = "method"
    THEN ScalarFunctor(functor.op, functor.val, x)
    ELSE OperatorFunctor(functor.op, functor.form, functor.val, x)

---------------------------------------------------------------------------
(* Transforms.  A call's outcome is [status, out, oob]: status is "ok",      *)
(* "invalid_argument" (the exception thrown) or "crash" (the process died on *)
(* a read or write through the null begin() of a buffer without storage);    *)
(* out is the Series written; oob says a buffer was accessed past its end.   *)

Outcome(status, out, oob) == [status |-> status, out |-> out, oob |-> oob]

\* transform_to(output, functor): std::transform over data_ into output.data_
transform_to(self, output, functor) ==
    [output EXCEPT !.data =
        [i \in 1..Len(@) |->
            IF i <= size(self) THEN Call(functor, self.data[i]) ELSE @[i]]]

\* transform_to(other, output, functor): std::transform over data_ and
\* other.data_.begin() into output.data_; other is read once per element of
\* data_, whatever its length.  jv is what the reads past its end return.
transform_to2(self, other, output, op, jv) ==
    LET past == size(other) < size(self)
        o(i) == IF i <= size(other) THEN other.data[i] ELSE jv[i]
    IN  IF past /\ size(other) = 0
        THEN Outcome("crash", output, TRUE)
        ELSE Outcome("ok",
                     [output EXCEPT !.data =
                         [i \in 1..Len(@) |->
                             IF i <= size(self)
                             THEN Functor(op, self.data[i], o(i))
                             ELSE @[i]]],
                     past)

\* transform(functor): the in-place monadic transform
transform(self, functor) == transform_to(self, self, functor)

\* the in-place dyadic transform handing its operands to the functor in the
\* other order
transform2_reversed(self, other, op, jv) ==
    LET t == transform_to2(other, self, self, op, jv)
    IN  Outcome(t.status,
                [self EXCEPT !.data = [i \in 1..size(self) |->
                                         IF i <= size(other) THEN t.out.data[i]
                                                             ELSE self.data[i]]],
                t.oob)

\* transform(other, functor): the in-place dyadic transform
transform2(self, other, op, jv) == transform_to2(self, other, self, op, jv)

\* the monadic constructor sizing valid_ as it sizes data_ instead of copying it
MonadicCtorFreshMask(other, func) ==
    transform_to(other,
                 [data |-> VecResize(<<>>, size(other), 0),
                  valid |-> VecResize(<<>>, size(other), FALSE),
                  exec |-> DefaultPolicy],
                 func)

\* Series(const Series<T>& other, MonadicFunc&& func)
MonadicCtor(other, func) ==
    transform_to(other,
                 [data |-> VecResize(<<>>, size(other), 0),
                  valid |-> other.valid,
                  exec |-> DefaultPolicy],
                 func)

\* the std::transform of the dyadic constructor that fills valid_: one step per
\* element of lhs.valid_, reading rhs.valid_ and writing valid_ at the same index.
\* dest is valid_ after valid_.resize(lhs.size()); j are the bits read past the
\* end of rhs.valid_; a write past the end of dest lands outside its size().
MaskAnd(lhs, rhs, dest, j) ==
    [i \in 1..Len(dest) |->
        IF i <= Len(lhs.valid)
        THEN lhs.valid[i] /\ (IF i <= Len(rhs.valid) THEN rhs.valid[i] ELSE j[i])
        ELSE dest[i]]

\* the dyadic constructor without its size check: the shorter length is used
DyadicCtorTruncating(lhs, rhs, op, j) ==
    LET n == IF size(lhs) <= size(rhs) THEN size(lhs) ELSE size(rhs)
    IN  Outcome("ok",
                [data |-> [i \in 1..n |-> Functor(op, lhs.data[i], rhs.data[i])],
                 valid |-> VecResize(<<>>, n, FALSE),
                 exec |-> DefaultPolicy],
                FALSE)

\* Series(const Series<T>& lhs, const Series<J>& rhs, DyadicFunc&& func)
DyadicCtor(lhs, rhs, op, j) ==
    LET n == size(lhs)
        fresh == [data |-> VecResize(<<>>, n, 0),
                  valid |-> VecResize(<<>>, n, FALSE),
                  exec |-> DefaultPolicy]
        readPast == Len(rhs.valid) < Len(lhs.valid)
        writePast == n < Len(lhs.valid)
        masked == [fresh EXCEPT !.valid = MaskAnd(lhs, rhs, @, j)]
    IN  IF size(lhs) # size(rhs)
        THEN Outcome("invalid_argument", Series(<<>>), FALSE)
        ELSE IF (readPast /\ Len(rhs.valid) = 0) \/ (writePast /\ n = 0)
        THEN Outcome("crash", Series(<<>>), TRUE)
        ELSE LET t == transform_to2(lhs, rhs, masked, op, [i \in 1..MaxLen |-> 0])
             IN  Outcome(t.status, t.out, readPast \/ writePast)

---------------------------------------------------------------------------
(* The DataFrame.  cols_ is the unordered_map from names to type-erased       *)
(* columns, a column being [type, series] (WrappedSeries<T>: typeid(T) and    *)
(* the Series); a name without a column maps to NoCol.  col_order_ is the     *)
(* vector of names in insertion order.  first is the name of the entry that   *)
(* cols_.begin() refers to: which one it is depends on the hashes and on the  *)
(* rehashes of the map, and it stays put while the map is not inserted into.  *)

Names == {"c1", "c2"}

Types == {"int", "double"}

NoCol == [type |-> "none", series |-> Series(<<>>)]

\* std::make_shared<WrappedSeries<T>>(std::move(series))
WrappedSeries(T, series) == [type |-> T, series |-> series]

\* DataFrame df;
EmptyFrame ==
    [cols |-> [n \in Names |-> NoCol], col_order |-> <<>>, first |-> "none"]

\* the names cols_ has an entry for
ColNames(f) == {n \in Names : f.cols[n].type # "none"}

\* std::size_t length() const
length(f) ==
    IF ColNames(f) = {} THEN 0 ELSE size(f.cols[f.first].series)

\* std::size_t width() const
width(f) == Cardinality(ColNames(f))

\* add() emplacing before it checks the length
add_emplace_first(f, name, T, series, first) ==
    LET inserted == name \notin ColNames(f)
        g == IF inserted
             THEN [cols |-> [f.cols EXCEPT ![name] = WrappedSeries(T, series)],
                   col_order |-> Append(f.col_order, name),
                   first |-> first]
             ELSE f
    IN  IF ColNames(f) # {} /\ size(series) # length(f)
        THEN [status |-> "invalid_argument", out |-> g]
        ELSE [status |-> "ok", out |-> g]

\* add() without its length check
add_unchecked(f, name, T, series, first) ==
    IF name \notin ColNames(f)
    THEN [status |-> "ok",
          out |-> [cols |-> [f.cols EXCEPT ![name] = WrappedSeries(T, series)],
                   col_order |-> Append(f.col_order, name),
                   first |-> first]]
    ELSE [status |-> "ok", out |-> f]

\* add() replacing the column of a name that is present (insert_or_assign)
\* and recording the name again
add_replacing(f, name, T, series, first) ==
    IF ColNames(f) # {} /\ size(series) # length(f)
    THEN [status |-> "invalid_argument", out |-> f]
    ELSE [status |-> "ok",
          out |-> [cols |-> [f.cols EXCEPT ![name] = WrappedSeries(T, series)],
                   col_order |-> Append(f.col_order, name),
                   first |-> IF name \in ColNames(f) THEN f.first ELSE first]]

\* void add(std::string name, Series<T> series); first is the entry that
\* cols_.begin() refers to once the new entry is in the map
add(f, name, T, series, first) ==
    IF ColNames(f) # {} /\ size(series) # length(f)
    THEN [status |-> "invalid_argument", out |-> f]
    ELSE IF name \notin ColNames(f)
    THEN [status |-> "ok",
          out |-> [cols |-> [f.cols EXCEPT ![name] = WrappedSeries(T, series)],
                   col_order |-> Append(f.col_order, name),
                   first |-> first]]
    ELSE [status |-> "ok", out |-> f]

\* column<T>() casting without looking at the stored type
column_static_cast(f, name, T) ==
    IF name \notin ColNames(f)
    THEN [status |-> "out_of_range", out |-> Series(<<>>)]
    ELSE [status |-> "ok", out |-> f.cols[name].series]

\* Series<T>& column(const std::string& name)
column(f, name, T) ==
    IF name \notin ColNames(f)
    THEN [status |-> "out_of_range", out |-> Series(<<>>)]
    ELSE IF f.cols[name].type # T
    THEN [status |-> "bad_cast", out |-> Series(<<>>)]
    ELSE [status |-> "ok", out |-> f.cols[name].series]

---------------------------------------------------------------------------
(* The state machine: a caller holding the Series a (and, for the dyadic     *)
(* calls, the operand b) and calling on them.                                *)

\* the sequences a Series is constructed from
Inputs == UNION {[1..n -> Vals] : n \in 0..MaxLen}

\* the sequences an operand or a column is constructed from: 1, 2, ... of
\* every length
OperandInputs == {[i \in 1..n |-> i] : n \in 0..MaxLen}

NoRes ==
    [call |-> "none", op |-> "none", form |-> "none", v |-> 0, idx |-> 0,
     lhs |-> Series(<<>>), rhs |-> Series(<<>>), out |-> Series(<<>>),
     value |-> nullopt, flag |-> FALSE, status |-> "ok", oob |-> FALSE,
     name |-> "none", type |-> "none", before |-> EmptyFrame,
     policy |-> "none", mode |-> "none", calls |-> 0]

\* no bulk loop is in flight
NoRun ==
    [kind |-> "none", form |-> "none", op |-> "none", val |-> 0,
     mpc |-> <<>>, w |-> <<>>, pc |-> <<>>, x |-> <<>>, o |-> <<>>,
     overlapped |-> FALSE,
     src |-> Series(<<>>), other |-> Series(<<>>), dest |-> Series(<<>>)]

\* a crashed or aborted process makes no further call
Alive == res.status \notin {"crash", "abort"}

\* the caller makes one call at a time: the next one once the result of the
\* last one has gone out of scope
Idle == res.call = "none" /\ run.kind = "none"

InRange(s) == \A i \in 1..size(s) : s.data[i] \in ValRange

NonZero(s) == \A i \in 1..size(s) : s.data[i] # 0

NoJunkBits == [i \in 1..MaxMask |-> FALSE]

NoJunkVals == [i \in 1..MaxLen |-> 0]

\* a.set_null(idx)
SetNull ==
    /\ Idle
    /\ \E idx \in 0..MaxIdx :
         /\ a' = set_null(a, idx)
         /\ res' = [NoRes EXCEPT !.call = "set_null", !.idx = idx, !.lhs = a]
    /\ UNCHANGED <<b, frame, run>>

\* a.append(value)
AppendValue ==
    /\ Idle
    /\ size(a) < MaxLen
    /\ \E value \in Vals : a' = append(a, value)
    /\ UNCHANGED <<b, frame, run>>
    /\ res' = NoRes

\* a.clear()
Clear ==
    /\ Idle
    /\ a' = clear(a)
    /\ UNCHANGED <<b, frame, run>>
    /\ res' = NoRes

\* a.resize(n)
Resize ==
    /\ Idle
    /\ \E n \in 0..MaxLen : a' = resize(a, n)
    /\ UNCHANGED <<b, frame, run>>
    /\ res' = NoRes

\* b.set_null(idx)
SetNullOperand ==
    /\ Idle
    /\ \E idx \in 0..MaxIdx : b' = set_null(b, idx)
    /\ UNCHANGED <<a, frame, run>>
    /\ res' = NoRes

\* a.set_exec_policy(policy)
SetExecPolicy ==
    /\ Idle
    /\ \E policy \in ExecPolicy : a' = set_exec_policy(a, policy)
    /\ UNCHANGED <<b, frame, run>>
    /\ res' = NoRes

\* b.set_exec_policy(policy)
SetExecPolicyOperand ==
    /\ Idle
    /\ \E policy \in ExecPolicy : b' = set_exec_policy(b, policy)
    /\ UNCHANGED <<a, frame, run>>
    /\ res' = NoRes

\* with_policy(policy, f)
WithPolicy ==
    /\ Idle
    /\ \E policy \in ExecPolicy \cup OutOfRangePolicy :
         LET r == with_policy(policy)
         IN  res' = [NoRes EXCEPT !.call = "with_policy", !.policy = policy,
                                  !.status = r.status, !.mode = r.mode,
                                  !.calls = r.calls]
    /\ UNCHANGED <<a, b, frame, run>>

\* lhs op rhs, for (lhs, rhs) = (a, b) and (b, a)
OperatorSeries ==
    /\ Idle
    /\ \E op \in Ops, swap \in BOOLEAN :
         LET lhs == IF swap THEN b ELSE a
             rhs == IF swap THEN a ELSE b
         IN  /\ op = "div" => NonZero(rhs)
             /\ \E j \in IF 0 < Len(rhs.valid) /\ Len(rhs.valid) < Len(lhs.valid)
                         THEN JunkBits ELSE {NoJunkBits} :
                  LET r == DyadicCtor(lhs, rhs, op, j)
                  IN  res' = [NoRes EXCEPT !.call = "operator_series", !.op = op,
                                           !.form = IF swap THEN "ba" ELSE "ab",
                                           !.lhs = lhs, !.rhs = rhs, !.out = r.out,
                                           !.status = r.status, !.oob = r.oob]
    /\ UNCHANGED <<a, b, frame, run>>

\* a.dot(b)
Dot ==
    /\ Idle
    /\ \E ret \in DotReturns :
         LET r == dot(a, b, ret)
         IN  res' = [NoRes EXCEPT !.call = "dot", !.lhs = a, !.rhs = b,
                                  !.value = r.value, !.status = r.status]
    /\ UNCHANGED <<a, b, frame, run>>

\* a op val ("sv") and val op a ("vs")
OperatorScalar ==
    /\ Idle
    /\ \E op \in Ops, form \in {"sv", "vs"}, val \in Scalars :
         LET func == Closure(op, form, val)
         IN  /\ (op = "div" /\ form = "vs") => NonZero(a)
             /\ res' = [NoRes EXCEPT !.call = "operator_scalar", !.op = op,
                                     !.form = form, !.v = val, !.lhs = a,
                                     !.out = MonadicCtor(a, func)]
    /\ UNCHANGED <<a, b, frame, run>>

\* a.add(b), a.sub(b), a.mul(b), a.div(b) and a += b, a -= b, a *= b, a /= b
InplaceSeries ==
    /\ Idle
    /\ \E op \in Ops :
         /\ op = "div" => NonZero(b)
         /\ \E jv \in IF 0 < size(b) /\ size(b) < size(a)
                      THEN {w \in JunkVals : op = "div" => \A i \in 1..MaxLen : w[i] # 0}
                      ELSE {NoJunkVals} :
              LET r == transform2(a, b, op, jv)
              IN  /\ InRange(r.out)
                  /\ a' = r.out
                  /\ res' = [NoRes EXCEPT !.call = "inplace_series", !.op = op,
                                          !.lhs = a, !.rhs = b, !.out = r.out,
                                          !.status = r.status, !.oob = r.oob]
    /\ UNCHANGED <<b, frame, run>>

\* a.add(val), a.sub(val), a.mul(val), a.div(val) and a += val, ...
InplaceScalar ==
    /\ Idle
    /\ \E op \in Ops, val \in Scalars :
         LET r == transform(a, Closure(op, "method", val))
         IN  /\ InRange(r)
             /\ a' = r
             /\ res' = [NoRes EXCEPT !.call = "inplace_scalar", !.op = op,
                                     !.v = val, !.lhs = a, !.out = r]
    /\ UNCHANGED <<b, frame, run>>

\* a.valid_count()
ValidCount ==
    /\ Idle
    /\ res' = [NoRes EXCEPT !.call = "valid_count", !.value = Some(valid_count(a))]
    /\ UNCHANGED <<a, b, frame, run>>

\* a.null_count()
NullCount ==
    /\ Idle
    /\ res' = [NoRes EXCEPT !.call = "null_count", !.value = Some(null_count(a))]
    /\ UNCHANGED <<a, b, frame, run>>

\* a.is_null(idx)
IsNull ==
    /\ Idle
    /\ \E idx \in 0..MaxIdx :
         res' = [NoRes EXCEPT !.call = "is_null", !.idx = idx,
                              !.flag = is_null(a, idx)]
    /\ UNCHANGED <<a, b, frame, run>>

\* the bits a.sum() can read past the end of a.valid_
SumJunk == IF ReadsPastMask(a) THEN JunkBits ELSE {NoJunkBits}

\* a.sum()
Sum ==
    /\ Idle
    /\ \E j \in SumJunk :
         res' = [NoRes EXCEPT !.call = "sum", !.value = sum(a, j),
                              !.oob = ReadsPastMask(a)]
    /\ UNCHANGED <<a, b, frame, run>>

\* a.mean()
Mean ==
    /\ Idle
    /\ \E j \in SumJunk :
         res' = [NoRes EXCEPT !.call = "mean", !.value = mean(a, j),
                              !.oob = ReadsPastMask(a)]
    /\ UNCHANGED <<a, b, frame, run>>

\* a.variance()
Variance ==
    /\ Idle
    /\ \E j \in SumJunk :
         res' = [NoRes EXCEPT !.call = "variance", !.value = variance(a, j),
                              !.oob = ReadsPastMask(a)]
    /\ UNCHANGED <<a, b, frame, run>>

\* a.stddev()
StdDev ==
    /\ Idle
    /\ \E j \in SumJunk :
         res' = [NoRes EXCEPT !.call = "stddev", !.value = stddev(a, j),
                              !.oob = ReadsPastMask(a)]
    /\ UNCHANGED <<a, b, frame, run>>

\* frame.add(name, Series<T>(d))
Add ==
    /\ Idle
    /\ \E name \in Names, T \in Types, d \in OperandInputs, first \in Names :
         LET r == add(frame, name, T, Series(d), first)
         IN  /\ first \in ColNames(frame) \cup {name}
             /\ frame' = r.out
             /\ res' = [NoRes EXCEPT !.call = "add", !.name = name, !.type = T,
                                     !.lhs = Series(d), !.status = r.status,
                                     !.before = frame]
    /\ UNCHANGED <<a, b, run>>

\* frame.length()
Length ==
    /\ Idle
    /\ res' = [NoRes EXCEPT !.call = "length", !.value = Some(length(frame)),
                            !.before = frame]
    /\ UNCHANGED <<a, b, frame, run>>

\* frame.column<T>(name)
Column ==
    /\ Idle
    /\ \E name \in Names, T \in Types :
         LET r == column(frame, name, T)
         IN  res' = [NoRes EXCEPT !.call = "column", !.name = name, !.type = T,
                                  !.out = r.out, !.status = r.status,
                                  !.before = frame]
    /\ UNCHANGED <<a, b, frame, run>>

\* the frame once the caller has written s through the Series<T>& that
\* column<T>(name) returned
ThroughReference(f, name, s) == [f EXCEPT !.cols[name].series = s]

\* frame.column<T>(name).append(1)
ColumnAppend ==
    /\ Idle
    /\ \E name \in Names, T \in Types :
         LET r == column(frame, name, T)
         IN  /\ r.status = "ok"
             /\ size(r.out) < MaxLen
             /\ frame' = ThroughReference(frame, name, append(r.out, 1))
    /\ res' = NoRes
    /\ UNCHANGED <<a, b, run>>

\* frame.column<T>(name).clear()
ColumnClear ==
    /\ Idle
    /\ \E name \in Names, T \in Types :
         LET r == column(frame, name, T)
         IN  /\ r.status = "ok"
             /\ frame' = ThroughReference(frame, name, clear(r.out))
    /\ res' = NoRes
    /\ UNCHANGED <<a, b, run>>

\* frame.column<T>(name).resize(n)
ColumnResize ==
    /\ Idle
    /\ \E name \in Names, T \in Types, n \in 0..MaxLen :
         LET r == column(frame, name, T)
         IN  /\ r.status = "ok"
             /\ frame' = ThroughReference(frame, name, resize(r.out, n))
    /\ res' = NoRes
    /\ UNCHANGED <<a, b, run>>

\* a.min()
Min ==
    /\ Idle
    /\ res' = [NoRes EXCEPT !.call = "min", !.value = min(a).value,
                            !.status = min(a).status]
    /\ UNCHANGED <<a, b, frame, run>>

\* a.max()
Max ==
    /\ Idle
    /\ res' = [NoRes EXCEPT !.call = "max", !.value = max(a).value,
                            !.status = max(a).status]
    /\ UNCHANGED <<a, b, frame, run>>

(* The bulk loops step by step.  A std::transform under an execution policy  *)
(* applies its element access functions position by position: a worker reads *)
(* the inputs of its position and then writes the output of its position.    *)
(* std::execution::seq runs the positions in order in the calling thread;    *)
(* every other policy lets the steps of different positions interleave.      *)
(* run holds the loop in flight: form is the call ("transform" a.op(val),    *)
(* "transform2" a.op(b), "transform2_self" a.op(a), "ctor_sv" a op val,      *)
(* "ctor_vs" val op a, "ctor2" a op b, "ctor2_self" a op a); mpc and w are   *)
(* the progress and the loaded word of each position of the valid_ loop of   *)
(* the dyadic constructor; pc, x and o are the progress and the loaded       *)
(* elements of each position of the data_ loop; dest is the Series under     *)
(* construction; src and other are the operands as the call found them;      *)
(* overlapped records that two positions were in flight at the same time.    *)

TransformForms ==
    {"transform", "transform2", "transform2_self",
     "ctor_sv", "ctor_vs", "ctor2", "ctor2_self"}

OperatorForms == {"ctor2", "ctor2_self"}

\* the forms whose output is *this
InPlaceForm(form) == form \in {"transform", "transform2", "transform2_self"}

\* the forms that run the monadic transform_to
MonadicForm(form) == form \in {"transform", "ctor_sv", "ctor_vs"}

\* std::execution::seq: the positions are processed in order, one at a time
InOrder(policy) == ExecutionMode(policy) = "seq"

\* the second operand of a dyadic form
OtherOperand(form, self, operand) ==
    CASE form \in {"transform2", "ctor2"} -> operand
      [] form \in {"transform2_self", "ctor2_self"} -> self
      [] OTHER -> Series(<<>>)

\* the Series the loop writes to, as it is when the loop starts
Destination(form, self) ==
    CASE InPlaceForm(form) -> self
      [] MonadicForm(form) ->
           [data |-> VecResize(<<>>, size(self), 0),
            valid |-> self.valid,
            exec |-> DefaultPolicy]
      [] OTHER ->
           [data |-> VecResize(<<>>, size(self), 0),
            valid |-> VecResize(<<>>, size(self), FALSE),
            exec |-> DefaultPolicy]

\* the functor of a form applied to the elements loaded for one position
StepValue(form, op, val, x, o) ==
    CASE form = "transform" -> Call(Closure(op, "method", val), x)
      [] form = "ctor_sv" -> Call(Closure(op, "sv", val), x)
      [] form = "ctor_vs" -> Call(Closure(op, "vs", val), x)
      [] OTHER -> Functor(op, x, o)

\* a second-operand iterator that runs one position ahead of the first
OtherIndexNext(i, n) == IF i < n THEN i + 1 ELSE i

\* other.data_.begin() advances in step with data_.begin()
OtherIndex(i, n) == i

\* the positions of the valid_ loop have all been written
MaskDone(r) == \A i \in DOMAIN r.mpc : r.mpc[i] = "stored"

\* the call enters its bulk loops.  The steps are those of a call whose reads
\* and writes stay inside the buffers: operands of one length, and for the
\* dyadic constructor an lhs mask no longer than the rhs mask and the data.
Enter(form, op) ==
    \E val \in IF MonadicForm(form) THEN Scalars ELSE {0} :
       LET other == OtherOperand(form, a, b)
           n == size(a)
           m == IF form \in OperatorForms THEN Len(a.valid) ELSE 0
       IN  /\ ~MonadicForm(form) => size(other) = n
           /\ form \in OperatorForms => m <= Len(other.valid) /\ m <= n
           /\ op = "div" =>
                IF form = "ctor_vs" THEN NonZero(a)
                ELSE IF MonadicForm(form) THEN val # 0 ELSE NonZero(other)
           /\ InPlaceForm(form) =>
                \A i \in 1..n :
                   StepValue(form, op, val, a.data[i],
                             IF MonadicForm(form) THEN 0 ELSE other.data[i])
                      \in ValRange
           /\ run' = [kind |-> "transform", form |-> form, op |-> op,
                      val |-> val,
                      mpc |-> [i \in 1..m |-> "todo"],
                      w |-> [i \in 1..m |-> <<>>],
                      pc |-> [i \in 1..n |-> "todo"],
                      x |-> [i \in 1..n |-> 0],
                      o |-> [i \in 1..n |-> 0],
                      overlapped |-> FALSE,
                      src |-> a, other |-> other,
                      dest |-> Destination(form, a)]

\* any of the transforms and operators starts
BeginTransform ==
    /\ Idle
    /\ \E form \in TransformForms, op \in Ops : Enter(form, op)
    /\ UNCHANGED <<a, b, frame, res>>

\* a op b or a op a starts
BeginOperator ==
    /\ Idle
    /\ \E form \in OperatorForms, op \in Ops : Enter(form, op)
    /\ UNCHANGED <<a, b, frame, res>>

\* the valid_ loop at position i reads the word that holds bit i of the
\* destination: a vector<bool> reference assigns by read-modify-write
MaskLoad ==
    /\ run.kind = "transform"
    /\ \E i \in DOMAIN run.mpc :
         /\ run.mpc[i] = "todo"
         /\ InOrder(exec_policy(run.src)) =>
              \A j \in DOMAIN run.mpc : j # i => run.mpc[j] # "loaded"
         /\ InOrder(exec_policy(run.src)) =>
              \A j \in 1..(i - 1) : run.mpc[j] = "stored"
         /\ run' = [run EXCEPT !.mpc[i] = "loaded", !.w[i] = run.dest.valid]
    /\ UNCHANGED <<a, b, frame, res>>

\* the valid_ loop at position i writes the word back with bit i set to
\* lhs.valid_[i] && rhs.valid_[i]
MaskStore ==
    /\ run.kind = "transform"
    /\ \E i \in DOMAIN run.mpc :
         /\ run.mpc[i] = "loaded"
         /\ run' = [run EXCEPT
                      !.mpc[i] = "stored",
                      !.w[i] = <<>>,
                      !.dest.valid =
                         [run.w[i] EXCEPT
                            ![i] = run.src.valid[i] /\ run.other.valid[i]]]
    /\ UNCHANGED <<a, b, frame, res>>

\* the data_ loop at position i reads its input elements
Load ==
    /\ run.kind = "transform"
    /\ MaskDone(run)
    /\ \E i \in DOMAIN run.pc :
         LET n == Len(run.pc)
             second == CASE run.form \in {"transform2", "ctor2"} ->
                              b.data[OtherIndex(i, n)]
                         [] run.form \in {"transform2_self", "ctor2_self"} ->
                              a.data[OtherIndex(i, n)]
                         [] OTHER -> 0
         IN  /\ run.pc[i] = "todo"
             /\ InOrder(exec_policy(run.src)) =>
                  \A j \in DOMAIN run.pc : j # i => run.pc[j] # "loaded"
             /\ InOrder(exec_policy(run.src)) =>
                  \A j \in 1..(i - 1) : run.pc[j] = "stored"
             /\ run' = [run EXCEPT
                          !.pc[i] = "loaded", !.x[i] = a.data[i],
                          !.o[i] = second,
                          !.overlapped =
                             @ \/ \E j \in DOMAIN run.pc : run.pc[j] = "loaded"]
    /\ UNCHANGED <<a, b, frame, res>>

\* the data_ loop at position i writes the functor's result to the output
Store ==
    /\ run.kind = "transform"
    /\ \E i \in DOMAIN run.pc :
         LET v == StepValue(run.form, run.op, run.val, run.x[i], run.o[i])
         IN  /\ run.pc[i] = "loaded"
             /\ IF InPlaceForm(run.form)
                THEN /\ a' = [a EXCEPT !.data[i] = v]
                     /\ run' = [run EXCEPT !.pc[i] = "stored",
                                           !.x[i] = 0, !.o[i] = 0]
                ELSE /\ a' = a
                     /\ run' = [run EXCEPT !.pc[i] = "stored",
                                           !.x[i] = 0, !.o[i] = 0,
                                           !.dest.data[i] = v]
    /\ UNCHANGED <<b, frame, res>>

\* the loops have joined and the call returns
Finish ==
    /\ run.kind = "transform"
    /\ MaskDone(run)
    /\ \A i \in DOMAIN run.pc : run.pc[i] = "stored"
    /\ res' = [NoRes EXCEPT !.call = "bulk_transform", !.op = run.op,
                            !.form = run.form, !.v = run.val,
                            !.lhs = run.src, !.rhs = run.other,
                            !.out = IF InPlaceForm(run.form) THEN a ELSE run.dest,
                            !.flag = run.overlapped,
                            !.policy = exec_policy(run.src)]
    /\ run' = NoRun
    /\ UNCHANGED <<a, b, frame>>

\* the result of the last call goes out of scope
Discard ==
    /\ Alive
    /\ res.call # "none"
    /\ res' = NoRes
    /\ UNCHANGED <<a, b, frame, run>>

(* One Series: its mutators, its scalar transforms and operators, its      *)
(* null management and its aggregates.  The operand is not used.           *)
Init ==
    /\ a \in {Series(d) : d \in Inputs}
    /\ b = Series(<<>>)
    /\ frame = EmptyFrame
    /\ run = NoRun
    /\ res = NoRes

Next ==
    \/ SetNull
    \/ AppendValue
    \/ Clear
    \/ Resize
    \/ OperatorScalar
    \/ InplaceScalar
    \/ ValidCount
    \/ NullCount
    \/ IsNull
    \/ Sum
    \/ Mean
    \/ Variance
    \/ StdDev
    \/ Min
    \/ Max
    \/ Discard

Spec == Init /\ [][Next]_vars

(* Two Series, each with its own null pattern: the dyadic operators.       *)
InitDyadic ==
    /\ a \in {Series(d) : d \in Inputs}
    /\ b \in {Series(d) : d \in OperandInputs}
    /\ frame = EmptyFrame
    /\ run = NoRun
    /\ res = NoRes

NextDyadic ==
    \/ SetNull
    \/ SetNullOperand
    \/ AppendValue
    \/ Clear
    \/ OperatorSeries
    \/ Dot
    \/ Discard

SpecDyadic == InitDyadic /\ [][NextDyadic]_vars

(* Two Series: the in-place transforms of a, with a scalar and with the     *)
(* operand b (the named methods and the compound assignments).             *)
NextInplace ==
    \/ SetNull
    \/ AppendValue
    \/ Clear
    \/ InplaceSeries
    \/ InplaceScalar
    \/ Discard

SpecInplace == InitDyadic /\ [][NextInplace]_vars

(* Two Series, each run under a policy of its own: the operators.          *)
NextPolicy ==
    \/ SetExecPolicy
    \/ SetExecPolicyOperand
    \/ WithPolicy
    \/ OperatorScalar
    \/ OperatorSeries
    \/ Discard

SpecPolicy == InitDyadic /\ [][NextPolicy]_vars

(* Two never-nulled Series of one length: every transform and operator,    *)
(* its bulk loop taken step by step under the policy of the Series.        *)
InitParallel ==
    /\ a \in {Series(d) : d \in Inputs}
    /\ b \in {Series(d) : d \in OperandInputs}
    /\ size(a) = size(b)
    /\ frame = EmptyFrame
    /\ run = NoRun
    /\ res = NoRes

NextParallel ==
    \/ SetExecPolicy
    \/ BeginTransform
    \/ Load
    \/ Store
    \/ Finish
    \/ Discard

SpecParallel == InitParallel /\ [][NextParallel]_vars

(* Two Series of one length with nulls: the dyadic operators, the valid_   *)
(* loop and the data_ loop taken step by step.                             *)
InitParallelMask ==
    /\ a \in {Series(d) : d \in OperandInputs}
    /\ b = a
    /\ frame = EmptyFrame
    /\ run = NoRun
    /\ res = NoRes

NextParallelMask ==
    \/ SetNull
    \/ SetNullOperand
    \/ SetExecPolicy
    \/ BeginOperator
    \/ MaskLoad
    \/ MaskStore
    \/ Load
    \/ Store
    \/ Finish
    \/ Discard

SpecParallelMask == InitParallelMask /\ [][NextParallelMask]_vars

(* A DataFrame built by add calls only, with its lookups.                  *)
InitFrame ==
    /\ a = Series(<<>>)
    /\ b = Series(<<>>)
    /\ frame = EmptyFrame
    /\ run = NoRun
    /\ res = NoRes

NextFrameAdd ==
    \/ Add
    \/ Length
    \/ Column
    \/ Discard

SpecFrameAdd == InitFrame /\ [][NextFrameAdd]_vars

(* A DataFrame whose columns are also mutated through the references that  *)
(* column<T>(name) returns.                                                *)
NextFrame ==
    \/ Add
    \/ Length
    \/ Column
    \/ ColumnAppend
    \/ ColumnClear
    \/ ColumnResize
    \/ Discard

SpecFrame == InitFrame /\ [][NextFrame]_vars

---------------------------------------------------------------------------
(* What the claims speak of *)

\* position i (1-based) is valid as the data model defines it: inside the data,
\* and either without a mask entry or with a mask entry that is true
ValidAt(s, i) == i <= size(s) /\ (i > Len(s.valid) \/ s.valid[i])

\* the arithmetic of the four operators on ints
Arith(op, x, y) ==
    CASE op = "add" -> x + y
      [] op = "sub" -> x - y
      [] op = "mul" -> x * y
      [] op = "div" -> CDiv(x, y)

RECURSIVE SumOver(_, _)
SumOver(S, f) ==
    IF S = {} THEN 0
    ELSE LET i == CHOOSE k \in S : TRUE IN f[i] + SumOver(S \ {i}, f)

ValidSet(s) == {i \in 1..size(s) : ValidAt(s, i)}

\* the mask has one entry per element: what set_null calls with in-bounds
\* indices leave on a constructed Series
MaskCoversData(s) == Len(s.valid) = size(s)

\* the operands of the last dyadic call are what a and b still are
OperandsUnchanged ==
    IF res.form = "ba" THEN res.lhs = b /\ res.rhs = a
                       ELSE res.lhs = a /\ res.rhs = b

---------------------------------------------------------------------------
(* Claims *)

\* C1: for every Series and every null pattern, the pattern where set_null was
\* never called included, valid_count() + null_count() equals size().
C1_CountsAddUpToSize ==
    /\ res.call = "valid_count" => res.value.v + null_count(a) = size(a)
    /\ res.call = "null_count" => valid_count(a) + res.value.v = size(a)

\* C2: for a non-empty Series on which set_null was never called, sum() and
\* mean() return a value, and mean() is the sum of all elements over size().
C2_NeverNulledHasMean ==
    (size(a) > 0 /\ Len(a.valid) = 0) =>
        /\ res.call = "sum" => (res.value.has /\ res.value.v = SumSeq(a.data))
        /\ res.call = "mean" =>
             (res.value.has /\ res.value.v = CDiv(SumSeq(a.data), size(a)))

\* C3: is_null(i) returns true exactly when i is out of the data bounds or
\* position i was explicitly nulled (has a mask entry that is false).
C3_IsNullExactlyWhenNulled ==
    res.call = "is_null" =>
        (res.flag <=> (\/ res.idx >= size(a)
                       \/ (res.idx < Len(a.valid) /\ ~a.valid[res.idx + 1])))

\* C4: for equal-length a and b with any null pattern, the Series built by a
\* binary operator has position i valid exactly when it is valid in both.
C4_ResultMaskIsAnd ==
    (res.call = "operator_series" /\ size(res.lhs) = size(res.rhs)) =>
        /\ res.status = "ok"
        /\ \A i \in 1..size(res.lhs) :
             ValidAt(res.out, i) <=> (ValidAt(res.lhs, i) /\ ValidAt(res.rhs, i))

\* C5: for equal-length a and b the operator returns a new Series of the same
\* length with (a op b)[i] = a[i] op b[i] for every i, and leaves a and b unchanged.
C5_OperatorSeriesValues ==
    (res.call = "operator_series" /\ size(res.lhs) = size(res.rhs)) =>
        /\ res.status = "ok"
        /\ size(res.out) = size(res.lhs)
        /\ \A i \in 1..size(res.lhs) :
             res.out.data[i] = Arith(res.op, res.lhs.data[i], res.rhs.data[i])
        /\ OperandsUnchanged

\* C6: for every Series s, scalar v and operator, (s op v)[i] = s[i] op v and
\* (v op s)[i] = v op s[i] for every i, and s is unchanged by the operator.
C6_OperatorScalarValues ==
    res.call = "operator_scalar" =>
        /\ res.status = "ok"
        /\ size(res.out) = size(res.lhs)
        /\ \A i \in 1..size(res.lhs) :
             res.out.data[i] = IF res.form = "sv"
                               THEN Arith(res.op, res.lhs.data[i], res.v)
                               ELSE Arith(res.op, res.v, res.lhs.data[i])
        /\ a = res.lhs

\* a scalar-left subtraction whose result differs from the scalar-right one
W6_ScalarLeftSub ==
    /\ res.call = "operator_scalar" /\ res.op = "sub" /\ res.form = "vs"
    /\ size(res.lhs) > 0
    /\ res.out.data[1] = res.v - res.lhs.data[1]
    /\ res.out.data[1] # res.lhs.data[1] - res.v

\* C7: a binary operator on operands of different lengths reports an
\* invalid-argument error before any buffer is accessed: no result is produced
\* (nothing truncated or padded) and both operands are unchanged.
C7_LengthMismatchThrows ==
    (res.call = "operator_series" /\ size(res.lhs) # size(res.rhs)) =>
        /\ res.status = "invalid_argument"
        /\ ~res.oob
        /\ size(res.out) = 0
        /\ OperandsUnchanged

\* a binary operator was called on non-empty operands of different lengths
W7_MismatchedOperator ==
    /\ res.call = "operator_series"
    /\ size(res.lhs) > 0 /\ size(res.rhs) > 0
    /\ size(res.lhs) # size(res.rhs)
    /\ res.status = "invalid_argument"

\* C8: an in-place dyadic transform whose operand has another length than the
\* receiver reports a size-mismatch error, leaves the receiver's data and mask
\* unchanged and never accesses a buffer past its end.
C8_InplaceMismatchRejected ==
    (res.call = "inplace_series" /\ size(res.lhs) # size(res.rhs)) =>
        /\ res.status = "invalid_argument"
        /\ a = res.lhs
        /\ ~res.oob

\* C9: for a Series with at least one valid position, variance() is the sum
\* over the valid positions only of (x[i] - mean())^2, divided by valid_count().
C9_VarianceSkipsNulls ==
    (res.call = "variance" /\ MaskCoversData(a) /\ ValidSet(a) # {}) =>
        LET m == mean(a, NoJunkBits).v
            sq == [i \in 1..size(a) |-> (a.data[i] - m) * (a.data[i] - m)]
        IN  /\ res.value.has
            /\ res.value.v = CDiv(SumOver(ValidSet(a), sq), valid_count(a))

\* C10: for a Series in which some in-bounds positions were nulled by set_null
\* and at least one position remains valid, mean() is the sum of the values at
\* the valid positions divided by the number of valid positions.
C10_MeanSkipsNulls ==
    (/\ res.call = "mean"
     /\ ValidSet(a) # {}
     /\ ValidSet(a) # 1..size(a)) =>
        /\ res.value.has
        /\ res.value.v = CDiv(SumOver(ValidSet(a), a.data), Cardinality(ValidSet(a)))

\* C11: for a Series in which some in-bounds positions were nulled by set_null
\* and at least one position remains valid, sum() is the sum of the values at
\* the valid positions only.
C11_SumSkipsNulls ==
    (/\ res.call = "sum"
     /\ ValidSet(a) # {}
     /\ ValidSet(a) # 1..size(a)) =>
        res.value = Some(SumOver(ValidSet(a), a.data))

\* C12: whenever a Series has no valid position (it is empty, or every one of
\* its positions has been nulled), sum(), mean(), variance() and stddev() each
\* return no value.
C12_NoValidPositionNoValue ==
    (res.call \in {"sum", "mean", "variance", "stddev"} /\ ValidSet(a) = {}) =>
        /\ res.status = "ok"
        /\ ~res.value.has

\* C13: a.dot(b) reports an invalid-argument error when a and b differ in
\* length; for equal lengths it returns the sum over all i of a[i] * b[i],
\* which is 0 when both are empty.
C13_DotProduct ==
    res.call = "dot" =>
        IF size(res.lhs) # size(res.rhs)
        THEN res.status = "invalid_argument"
        ELSE /\ res.status = "ok"
             /\ res.value = Some(SumSeq([i \in 1..size(res.lhs) |->
                                            res.lhs.data[i] * res.rhs.data[i]]))

\* C14: add(name, series) on a store that already has a column is rejected
\* with a reported error when series.size() differs from length(), and after
\* the rejection the store is unchanged.
C14_AddRejectsOtherLength ==
    (/\ res.call = "add"
     /\ ColNames(res.before) # {}
     /\ size(res.lhs) # length(res.before)) =>
        /\ res.status = "invalid_argument"
        /\ frame = res.before

\* a new name was added to a store with a column of another length
W14_RejectedAdd ==
    /\ res.call = "add"
    /\ ColNames(res.before) # {}
    /\ res.name \notin ColNames(res.before)
    /\ size(res.lhs) # length(res.before)
    /\ res.status = "invalid_argument"

\* C15 as stated: after any sequence of add calls, Series of length 0
\* included, length() == 0 holds if and only if the store has no columns.
C15_LengthZeroIffNoColumns ==
    res.call = "length" => (res.value.v = 0 <=> ColNames(frame) = {})

\* C15 as amended: after any sequence of add calls, length() == 0 holds if and
\* only if the store has no columns or every column of it is empty.
C15_LengthZeroIffAllEmpty ==
    res.call = "length" =>
        (res.value.v = 0 <=>
            \A n \in ColNames(frame) : size(frame.cols[n].series) = 0)

\* length() was taken of a store whose columns are empty Series
W15_LengthOfEmptyColumns ==
    /\ res.call = "length"
    /\ width(frame) = 2
    /\ res.value.v = 0

\* C16: in every reachable state of a non-empty DataFrame every column's
\* length equals length(), also after append, clear and resize applied to a
\* column through the reference that column<T>(name) returns.
C16_ColumnsShareLength ==
    \A n \in ColNames(frame) : size(frame.cols[n].series) = length(frame)

\* C17: column<T>(name) reports a not-found error when no column has that
\* name, a type-mismatch error (another error) when the column was inserted
\* with an element type other than T, and otherwise returns the Series
\* inserted under that name; a failed lookup leaves the store unchanged.
C17_ColumnLookup ==
    /\ res.call = "column" =>
          /\ frame = res.before
          /\ IF res.name \notin ColNames(frame)
             THEN res.status = "out_of_range"
             ELSE IF frame.cols[res.name].type # res.type
             THEN res.status = "bad_cast"
             ELSE res.status = "ok" /\ res.out = frame.cols[res.name].series
    /\ (/\ res.call = "add"
        /\ res.status = "ok"
        /\ res.name \notin ColNames(res.before)) =>
          /\ column(frame, res.name, res.type) = [status |-> "ok", out |-> res.lhs]
          /\ \A T \in Types \ {res.type} :
                column(frame, res.name, T).status = "bad_cast"

\* a column was looked up with another element type than it was inserted with
W17_TypeMismatch ==
    /\ res.call = "column"
    /\ res.name \in ColNames(frame)
    /\ frame.cols[res.name].type # res.type
    /\ res.status = "bad_cast"

\* C18: a Series created as the result of a monadic or dyadic operator carries
\* the source's execution policy: if s has policy p then (s + v).exec_policy()
\* and (s + t).exec_policy() are p.
C18_PolicyPropagates ==
    /\ res.call = "operator_scalar" =>
          exec_policy(res.out) = exec_policy(res.lhs)
    /\ (res.call = "operator_series" /\ size(res.lhs) = size(res.rhs)) =>
          /\ res.status = "ok"
          /\ exec_policy(res.out) = exec_policy(res.lhs)

\* C19: compound assignment mutates the receiver in place: after s += v every
\* s[i] is the old s[i] + v, and after s += t (equal lengths) every s[i] is
\* the old s[i] + t[i] while t is unchanged; likewise for -=, *= and /=, and
\* the length of s is unchanged.
C19_CompoundAssignment ==
    /\ res.call = "inplace_scalar" =>
          /\ size(a) = size(res.lhs)
          /\ \A i \in 1..size(res.lhs) :
                a.data[i] = Arith(res.op, res.lhs.data[i], res.v)
    /\ (res.call = "inplace_series" /\ size(res.lhs) = size(res.rhs)) =>
          /\ res.status = "ok"
          /\ size(a) = size(res.lhs)
          /\ \A i \in 1..size(res.lhs) :
                a.data[i] = Arith(res.op, res.lhs.data[i], res.rhs.data[i])
          /\ b = res.rhs

\* s /= t changed a non-empty s, where t / s gives something else
W19_DivideAssignSeries ==
    /\ res.call = "inplace_series" /\ res.op = "div"
    /\ size(res.lhs) = size(res.rhs) /\ size(res.lhs) > 0
    /\ a.data # res.lhs.data
    /\ a.data[1] # CDiv(res.rhs.data[1], res.lhs.data[1])

\* C20: min() and max() return no value for an empty Series and otherwise
\* the smallest / largest stored element over all positions, null positions
\* included.
C20_MinMaxOverAllPositions ==
    res.call \in {"min", "max"} =>
        /\ res.status = "ok"
        /\ IF size(a) = 0
           THEN ~res.value.has
           ELSE /\ res.value.has
                /\ \E i \in 1..size(a) : a.data[i] = res.value.v
                /\ \A i \in 1..size(a) :
                      IF res.call = "min" THEN res.value.v <= a.data[i]
                                          ELSE res.value.v >= a.data[i]

\* C21: in every state reachable from a constructed Series by set_null(i) (any
\* index i, i >= size() included), append, clear, resize and in-place
\* transforms, the validity mask is never longer than the data.
C21_MaskNotLongerThanData ==
    Len(a.valid) <= size(a)

\* the null status of position k (1-based) that a mask gives: null exactly
\* when the mask has an entry for k and the entry is false
MaskedNull(s, k) == k <= Len(s.valid) /\ ~s.valid[k]

\* C22: set_null(i) on an empty Series changes nothing; on a non-empty Series
\* it makes position i null, pads a too-short mask with valid entries up to
\* max(i+1, N) first, and leaves the data buffer and the null status of every
\* other position unchanged.
C22_SetNullFrame ==
    res.call = "set_null" =>
        LET s == res.lhs
            N == size(s)
        IN  IF N = 0
            THEN a = s
            ELSE /\ a.data = s.data
                 /\ exec_policy(a) = exec_policy(s)
                 /\ MaskedNull(a, res.idx + 1)
                 /\ Len(a.valid) = IF res.idx >= Len(s.valid)
                                   THEN Max2(res.idx + 1, N)
                                   ELSE Len(s.valid)
                 /\ \A k \in 1..Max2(Len(a.valid), Len(s.valid)) :
                       k # res.idx + 1 => (MaskedNull(a, k) <=> MaskedNull(s, k))

\* set_null(i) grew the mask of a non-empty Series by more than position i
W22_SetNullPadded ==
    /\ res.call = "set_null"
    /\ size(res.lhs) > 0
    /\ res.idx > Len(res.lhs.valid)
    /\ Len(a.valid) > Len(res.lhs.valid) + 1

\* C23: a Series built by a scalar operator from a source s has the length of
\* s and the null pattern of s: position i is null in the result exactly when
\* it is null in s, and the mask of s is unchanged.
C23_ScalarOperatorKeepsNulls ==
    res.call = "operator_scalar" =>
        /\ size(res.out) = size(res.lhs)
        /\ \A i \in 1..size(res.lhs) :
              ValidAt(res.out, i) <=> ValidAt(res.lhs, i)
        /\ \A idx \in 0..MaxIdx :
              is_null(res.out, idx) <=> is_null(res.lhs, idx)
        /\ a.valid = res.lhs.valid

\* a scalar operator was applied to a Series with a null and a valid position
W23_ScalarOperatorOnNulls ==
    /\ res.call = "operator_scalar"
    /\ ValidSet(res.lhs) # {}
    /\ ValidSet(res.lhs) # 1..size(res.lhs)
    /\ ValidSet(res.out) = ValidSet(res.lhs)

\* C24: with_policy invokes the operation exactly once with the execution
\* mode matching the policy for each of the four policy values; for any other
\* value it ends in a fatal abort and neither runs the operation under a
\* default mode nor returns normally.
C24_WithPolicyDispatch ==
    res.call = "with_policy" =>
        /\ res.policy = "SEQ" =>
              (res.status = "ok" /\ res.calls = 1 /\ res.mode = "std::execution::seq")
        /\ res.policy = "PAR" =>
              (res.status = "ok" /\ res.calls = 1 /\ res.mode = "std::execution::par")
        /\ res.policy = "UNSEQ" =>
              (res.status = "ok" /\ res.calls = 1 /\ res.mode = "std::execution::unseq")
        /\ res.policy = "PAR_UNSEQ" =>
              (res.status = "ok" /\ res.calls = 1
                  /\ res.mode = "std::execution::par_unseq")
        /\ res.policy \notin {"SEQ", "PAR", "UNSEQ", "PAR_UNSEQ"} =>
              (res.status = "abort" /\ res.calls = 0)

\* with_policy was called with a value that is no enumerator, and aborted
W24_UnknownPolicyAborts ==
    /\ res.call = "with_policy"
    /\ res.policy \in OutOfRangePolicy
    /\ res.status = "abort"

\* C27: add with a name that is already present (and a Series of the store's
\* length) leaves the store unchanged: the column first inserted under that
\* name keeps its content and element type; and after any sequence of add
\* calls the recorded column order lists each column name exactly once, in
\* first-insertion order, with width() equal to the number of names in it.
C27_DuplicateAddKeepsFirst ==
    /\ (/\ res.call = "add"
        /\ res.name \in ColNames(res.before)
        /\ size(res.lhs) = length(res.before)) =>
          /\ res.status = "ok"
          /\ frame = res.before
    /\ (/\ res.call = "add"
        /\ res.status = "ok"
        /\ res.name \notin ColNames(res.before)) =>
          frame.col_order = Append(res.before.col_order, res.name)
    /\ \A i, j \in 1..Len(frame.col_order) :
          frame.col_order[i] = frame.col_order[j] => i = j
    /\ {frame.col_order[i] : i \in 1..Len(frame.col_order)} = ColNames(frame)
    /\ width(frame) = Len(frame.col_order)

\* a name already present was added again with another element type or content
W27_DuplicateAdd ==
    /\ res.call = "add"
    /\ res.name \in ColNames(res.before)
    /\ size(res.lhs) = length(res.before)
    /\ WrappedSeries(res.type, res.lhs) # res.before.cols[res.name]
    /\ width(frame) = 2
    /\ res.status = "ok"

\* the value the functor of a form gives at position i of the operands the
\* call started with
SequentialValue(r, i) ==
    CASE r.form \in {"transform", "ctor_sv"} -> Arith(r.op, r.lhs.data[i], r.v)
      [] r.form = "ctor_vs" -> Arith(r.op, r.v, r.lhs.data[i])
      [] OTHER -> Arith(r.op, r.lhs.data[i], r.rhs.data[i])

\* C25: under every execution policy and for every interleaving of the
\* per-position steps, a monadic or dyadic transform leaves f(input[i]), resp.
\* f(a[i], b[i]), at every position i of its result, also when the destination
\* is the source (in-place forms) and when both operands are the same Series:
\* the outcome is the sequential outcome.
C25_PositionsCorrespond ==
    res.call = "bulk_transform" =>
        /\ size(res.out) = size(res.lhs)
        /\ \A i \in 1..size(res.lhs) :
              res.out.data[i] = SequentialValue(res, i)

\* a.op(a) has run in place under a parallel policy with two positions in
\* flight at the same time
W25_InterleavedSelfTransform ==
    /\ res.call = "bulk_transform"
    /\ res.form = "transform2_self"
    /\ res.policy \in {"PAR", "PAR_UNSEQ"}
    /\ res.flag
    /\ size(res.lhs) = MaxLen

\* C26: when a dyadic operator builds its result under a parallel policy from
\* operands whose masks cover their data, the result's mask is the
\* position-wise AND of the operand masks for every interleaving: no position's
\* flag is lost to a concurrent write of a neighbouring position.
C26_MaskIsAndUnderParallelPolicy ==
    (/\ res.call = "bulk_transform"
     /\ res.form \in OperatorForms
     /\ res.policy \in {"PAR", "PAR_UNSEQ"}
     /\ Len(res.lhs.valid) = size(res.lhs)
     /\ Len(res.rhs.valid) = size(res.rhs)) =>
        /\ Len(res.out.valid) = size(res.lhs)
        /\ \A i \in 1..size(res.lhs) :
              res.out.valid[i] = (res.lhs.valid[i] /\ res.rhs.valid[i])

=============================================================================
